---- MODULE Spec2Model ----
(***************************************************************************)
(* Model of packages/electron-builder-util/src/fs.ts: walk, copyOrLinkFile, *)
(* FileCopier and copyDir.  Paths are sequences of path components, so     *)
(* dirPath + path.sep + name is Append(dirPath, name).  Every filesystem   *)
(* call is a suspension point: a task issues it in one step and its        *)
(* completion is a later step, interleaved with the other tasks.           *)
(***************************************************************************)
EXTENDS Integers, Sequences, FiniteSets, TLC

VARIABLES
    \* inputs of a call (fixed during a behaviour)
    tree, filter, consumer, transformer, isUseHardLinkFunction, env,
    \* walk (fs.ts:44-110)
    result, queue, addDirToResult, extraIgnoredFiles, dirPath, childNames,
    dirs, task, walkPc, walkErr,
    \* FileCopier and copyDir (fs.ts:161-235)
    isUseHardLink, createdSourceDirs, links, linkTask, copyPc, destFs,
    \* environment: failures injected so far
    faults,
    \* history
    run, firstResult, firstDest, skipped, consumed, readLog, visited,
    activeCopies, symlinkLog, ensureLog, failLog, outOfOrder, consulted,
    mapWasFull,
    \* copyOrLinkFile as a function of its arguments (fs.ts:124-159)
    colIn, colOut

inputVars == <<tree, filter, consumer, transformer, isUseHardLinkFunction, env>>
walkVars == <<result, queue, addDirToResult, extraIgnoredFiles, dirPath,
              childNames, dirs, task, walkPc, walkErr>>
copyVars == <<isUseHardLink, createdSourceDirs, links, linkTask, copyPc, destFs>>
histVars == <<run, firstResult, firstDest, skipped, consumed, readLog, visited,
              activeCopies, symlinkLog, ensureLog, failLog, outOfOrder, consulted,
              mapWasFull>>
colVars == <<colIn, colOut>>
vars == <<inputVars, walkVars, copyVars, faults, histVars, colVars>>

----------------------------------------------------------------------------
\* Bounds of the model

\* failures (EIO) the environment may inject in one behaviour
MaxFaults == 1
\* children of the widest directory, and symbolic links, of the wide tree
MaxChildren == 9
\* largest mode value given to copyOrLinkFile in SpecMode
MaxMode == 4095

\* fs.ts:9
MAX_FILE_REQUESTS == 8

----------------------------------------------------------------------------
\* Paths, names and the source tree

Null == <<>>

src == <<"src">>
destination == <<"dst">>

\* UTF-16 code unit of a one-character name: Array.prototype.sort compares these
CharCode(c) ==
    CASE c = "a" -> 97 [] c = "b" -> 98 [] c = "c" -> 99 [] c = "d" -> 100
      [] c = "e" -> 101 [] c = "f" -> 102 [] c = "g" -> 103 [] c = "h" -> 104
      [] c = "i" -> 105 [] c = "j" -> 106 [] c = "k" -> 107 [] c = "l" -> 108
      [] c = "m" -> 109 [] c = "n" -> 110 [] c = "s" -> 115 [] OTHER -> 122

RECURSIVE Insert(_, _)
Insert(x, s) ==
    IF s = <<>> THEN <<x>>
    ELSE IF CharCode(x) < CharCode(Head(s)) THEN <<x>> \o s
    ELSE <<Head(s)>> \o Insert(x, Tail(s))

\* Variant: the names stay in the order they were listed in
Unsorted(s) == s

\* childNames.sort(), dirs.sort()
RECURSIVE Sort(_)
Sort(s) == IF s = <<>> THEN <<>> ELSE Insert(Head(s), Sort(Tail(s)))

Range(s) == {s[i] : i \in 1..Len(s)}

Reverse(s) == [i \in 1..Len(s) |-> s[Len(s) + 1 - i]]

RECURSIVE SomeListing(_)
SomeListing(S) ==
    IF S = {} THEN <<>>
    ELSE LET x == CHOOSE y \in S : TRUE IN <<x>> \o SomeListing(S \ {x})

\* orders readdir may list a set of names in: one order and its reverse
Listings(S) == {SomeListing(S), Reverse(SomeListing(S))}

Parent(p) == SubSeq(p, 1, Len(p) - 1)

IsPrefix(p, q) == Len(p) <= Len(q) /\ SubSeq(q, 1, Len(p)) = p

IndexOf(s, pat) ==
    LET hits == {i \in 1..(Len(s) - Len(pat) + 1) :
                    SubSeq(s, i, i + Len(pat) - 1) = pat}
    IN IF hits = {} THEN 0 ELSE CHOOSE i \in hits : \A j \in hits : i <= j

\* String.prototype.replace(pat, rep): the first occurrence only
Replace(s, pat, rep) ==
    LET i == IndexOf(s, pat)
    IN IF i = 0 THEN s
       ELSE SubSeq(s, 1, i - 1) \o rep \o SubSeq(s, i + Len(pat), Len(s))

Oct(u, g, o) == u * 64 + g * 8 + o

DirNode == [kind |-> "dir", mode |-> Oct(7, 5, 5), content |-> <<>>,
            target |-> "", real |-> <<>>]
FileNode(c, m) == [kind |-> "file", mode |-> m, content |-> <<c>>,
                   target |-> "", real |-> <<>>]
LinkNode(t, r) == [kind |-> "symlink", mode |-> Oct(7, 7, 7), content |-> <<>>,
                   target |-> t, real |-> r]
SocketNode == [kind |-> "socket", mode |-> Oct(7, 5, 5), content |-> <<>>,
               target |-> "", real |-> <<>>]

\* src/{a, d/{b, l -> ../a}, e/}
Tree1 ==
    (src :> DirNode)
    @@ (<<"src", "a">> :> FileNode("A", Oct(6, 4, 4)))
    @@ (<<"src", "d">> :> DirNode)
    @@ (<<"src", "d", "b">> :> FileNode("B", Oct(7, 0, 0)))
    @@ (<<"src", "d", "l">> :> LinkNode("../a", <<"src", "a">>))
    @@ (<<"src", "e">> :> DirNode)

\* src/{a, l -> d, d/{b, s}}: a link to a directory, and a socket
Tree2 ==
    (src :> DirNode)
    @@ (<<"src", "a">> :> FileNode("A", Oct(7, 5, 5)))
    @@ (<<"src", "l">> :> LinkNode("d", <<"src", "d">>))
    @@ (<<"src", "d">> :> DirNode)
    @@ (<<"src", "d", "b">> :> FileNode("B", Oct(6, 4, 4)))
    @@ (<<"src", "d", "s">> :> SocketNode)

\* src/{a, b, l -> a}: two files and a link in one directory
Tree3 ==
    (src :> DirNode)
    @@ (<<"src", "a">> :> FileNode("A", Oct(6, 4, 4)))
    @@ (<<"src", "b">> :> FileNode("B", Oct(7, 5, 5)))
    @@ (<<"src", "l">> :> LinkNode("a", <<"src", "a">>))

Trees == {Tree1, Tree2, Tree3}

\* src/{c -> ., d/{b, l -> ..}}: links that lead back to the root
Tree4 ==
    (src :> DirNode)
    @@ (<<"src", "c">> :> LinkNode(".", src))
    @@ (<<"src", "d">> :> DirNode)
    @@ (<<"src", "d", "b">> :> FileNode("B", Oct(6, 4, 4)))
    @@ (<<"src", "d", "l">> :> LinkNode("..", src))

WalkTrees == Trees \cup {Tree4}

\* src/{e/{MaxChildren sockets}, m/{l, m/{l, ...}}}: a directory with more
\* children, and a tree with more links, than MAX_FILE_REQUESTS
WideNames == <<"a", "b", "c", "f", "g", "h", "i", "j", "k", "m", "n">>
WideDir == <<"src", "e">>
WideChild(i) == Append(WideDir, WideNames[i])
Chain(k) == src \o [i \in 1..k |-> "m"]
WideTree ==
    [p \in {src, WideDir}
            \cup {WideChild(i) : i \in 1..MaxChildren}
            \cup {Chain(k) : k \in 1..MaxChildren}
            \cup {Append(Chain(k), "l") : k \in 1..MaxChildren} |->
        IF p \in {WideChild(i) : i \in 1..MaxChildren} THEN SocketNode
        ELSE IF p[Len(p)] = "l" THEN LinkNode(".", Parent(p))
        ELSE DirNode]

Children(p) == {q[Len(q)] : q \in {r \in DOMAIN tree : Len(r) > 0 /\ Parent(r) = p /\ r # p}}

\* Variant: stat, which follows a link
StatFollowing(p) == IF tree[p].kind = "symlink" THEN tree[tree[p].real] ELSE tree[p]

\* lstat: the status of the path itself, a link is not followed
Lstat(p) == tree[p]

\* readdir opens the directory a path resolves to
Resolve(p) == IF tree[p].kind = "symlink" THEN tree[p].real ELSE p

IsDirectory(st) == st.kind = "dir"
IsFile(st) == st.kind = "file"
IsSymbolicLink(st) == st.kind = "symlink"

----------------------------------------------------------------------------
\* Inputs: filter, consumer, transformer, hard-link predicate, environment

NoFilter == [isNull |-> TRUE, rejects |-> {}]
RejectFilter(S) == [isNull |-> FALSE, rejects |-> S]

\* A consumer of walk other than copyDir's: what it adds to the ignore set
\* when called for a path (pairs <<path, ignored path>>), whether it returns a
\* promise, and the replacement status its promise resolves to (pairs
\* <<path, kind>>).
NoConsumer == [kind |-> "null", ignores |-> {}, override |-> {}]
SyncConsumer(ign) == [kind |-> "sync", ignores |-> ign, override |-> {}]
AsyncConsumer(ign, ovr) == [kind |-> "async", ignores |-> ign, override |-> ovr]
CopyDirConsumer == [kind |-> "copyDir", ignores |-> {}, override |-> {}]

WalkFilters ==
    {NoFilter, RejectFilter({<<"src", "d">>}), RejectFilter({<<"src", "d", "b">>})}

WalkConsumers ==
    {NoConsumer,
     SyncConsumer({<<(<<"src", "a">>), (<<"src", "d">>)>>}),
     AsyncConsumer({<<(<<"src", "a">>), (<<"src", "d">>)>>}, {}),
     AsyncConsumer({}, {<<(<<"src", "d">>), "file">>}),
     AsyncConsumer({}, {<<(<<"src", "a">>), "dir">>})}

NoTransformer == [isNull |-> TRUE, sync |-> {}, async |-> {}, asyncNull |-> {}]

NoEnv == [platform |-> "linux", USE_HARD_LINKS |-> "unset", isCi |-> FALSE]

UndefinedFunction == [kind |-> "undefined", allows |-> {}]
\* fs.ts:237
DO_NOT_USE_HARD_LINKS == [kind |-> "DO_NOT_USE_HARD_LINKS", allows |-> {}]

----------------------------------------------------------------------------
\* walk (fs.ts:44-110)

FilePath(n) == Append(dirPath, n)

NewTask(p) == [path |-> p, pc |-> "idle", ret |-> Null, ops |-> <<>>, err |-> "",
               data |-> <<>>, inCatch |-> FALSE, linkErr |-> ""]

\* fs.ts:67, the filter half
FilterRejects(p, st) == ~filter.isNull /\ p \in filter.rejects

\* Variant: the ignore set is not consulted
SkipsByFilterOnly(p, st) == FilterRejects(p, st)

\* fs.ts:67
Skips(p, st) == p \in extraIgnoredFiles \/ FilterRejects(p, st)

\* the paths the consumer adds to extraIgnoredFiles when called for p
IgnoredBy(p) == {pr[2] : pr \in {x \in consumer.ignores : x[1] = p}}

\* the value `it` of fs.ts:83: a replacement status, or none
HasOverride(p) == \E pr \in consumer.override : pr[1] = p
OverrideKind(p) == (CHOOSE pr \in consumer.override : pr[1] = p)[2]

\* fs.ts:85
StatusIsDirectory(p, st) ==
    IF HasOverride(p) THEN OverrideKind(p) = "dir" ELSE IsDirectory(st)

\* Variant: the map starts every mapper at once
Unlimited(k) == TRUE

\* fs.ts:10, the option {concurrency: MAX_FILE_REQUESTS} of BluebirdPromise.map:
\* with k mapper promises pending, another mapper may be called
WithinConcurrency(k) == k < MAX_FILE_REQUESTS

\* mapper promises of the current directory that are pending
InFlight == Cardinality({n \in DOMAIN task : task[n].pc \notin {"idle", "done", "failed"}})

\* Variant: the map does not wait for the promise a consumer returned
MapSettledBeforeConsumers ==
    \A n \in DOMAIN task : task[n].pc \notin {"idle", "lstat"}

\* BluebirdPromise.map resolves when every mapper promise has resolved (fs.ts:63,95)
MapSettled == \A n \in DOMAIN task : task[n].pc = "done"

\* fs.ts:97-101
RECURSIVE KeptPaths(_)
KeptPaths(names) ==
    IF names = <<>> THEN <<>>
    ELSE (IF task[Head(names)].ret # Null THEN <<task[Head(names)].ret>> ELSE <<>>)
         \o KeptPaths(Tail(names))

\* fs.ts:104-106
RECURSIVE PushAll(_, _)
PushAll(q, names) ==
    IF names = <<>> THEN q
    ELSE PushAll(Append(q, Append(dirPath, Head(names))), Tail(names))

\* Variant: the flag starts set, so the root is added like any other directory
InitialAddDirToResultSet == TRUE

\* fs.ts:47
InitialAddDirToResult == FALSE

\* Variant: the error is swallowed and the mapper promise resolves
TaskSwallows(n, e) ==
    /\ task' = [task EXCEPT ![n].pc = "then"]
    /\ UNCHANGED <<walkPc, walkErr, copyPc>>

\* a mapper promise rejects: map rejects, walk rejects, copyDir rejects
TaskRejects(n, e) ==
    /\ task' = [task EXCEPT ![n].pc = "failed", ![n].err = e,
                             ![n].linkErr = IF task[n].pc = "link" THEN e ELSE @]
    /\ walkPc' = IF walkPc = "map" THEN "failed" ELSE walkPc
    /\ walkErr' = IF walkPc = "map" THEN e ELSE walkErr
    /\ copyPc' = IF walkPc = "map" /\ copyPc = "walk" THEN "failed" ELSE copyPc

\* Variant: queue.shift(), the oldest pending directory is taken
ShiftIndex(q) == 1

\* fs.ts:50: queue.pop() takes the directory pushed last
PopIndex(q) == Len(q)

\* fs.ts:49-58: pop a directory, add it to the result, issue readdir
WalkPop ==
    /\ walkPc = "pop"
    /\ queue # <<>>
    /\ LET i == PopIndex(queue)
           d == queue[i]
       IN /\ dirPath' = d
          /\ queue' = SubSeq(queue, 1, i - 1) \o SubSeq(queue, i + 1, Len(queue))
          /\ result' = IF addDirToResult THEN Append(result, d) ELSE result
          /\ addDirToResult' = TRUE
          /\ readLog' = readLog \cup {d}
          /\ visited' = visited \cup {d}
    /\ walkPc' = "readdir"
    /\ UNCHANGED <<inputVars, extraIgnoredFiles, childNames, dirs, task, walkErr,
                   copyVars, faults, run, firstResult, firstDest, skipped, consumed,
                   activeCopies, symlinkLog, ensureLog, failLog, outOfOrder,
                   consulted, mapWasFull, colVars>>

\* fs.ts:58-61: readdir completes, the names are sorted, the map begins
ReaddirDone ==
    /\ walkPc = "readdir"
    /\ IF IsDirectory(tree[Resolve(dirPath)])
       THEN /\ \E listing \in Listings(Children(Resolve(dirPath))) :
                  childNames' = Sort(listing)
            /\ dirs' = <<>>
            /\ task' = [n \in Children(Resolve(dirPath)) |-> NewTask(FilePath(n))]
            /\ walkPc' = "map"
            /\ UNCHANGED <<walkErr, copyPc, failLog>>
       ELSE /\ walkPc' = "failed"
            /\ walkErr' = "ENOTDIR"
            /\ copyPc' = IF copyPc = "walk" THEN "failed" ELSE copyPc
            /\ failLog' = Append(failLog, "ENOTDIR")
            /\ UNCHANGED <<childNames, dirs, task>>
    /\ UNCHANGED <<inputVars, result, queue, addDirToResult, extraIgnoredFiles,
                   dirPath, isUseHardLink, createdSourceDirs, links, linkTask,
                   destFs, faults, run, firstResult, firstDest, skipped, consumed,
                   readLog, visited, activeCopies, symlinkLog, ensureLog,
                   outOfOrder, consulted, mapWasFull, colVars>>

\* the map calls the mapper for a child: lstat is issued (fs.ts:63-65)
StartChild(n) ==
    /\ walkPc = "map"
    /\ n \in DOMAIN task
    /\ task[n].pc = "idle"
    /\ WithinConcurrency(InFlight)
    /\ task' = [task EXCEPT ![n].pc = "lstat"]
    /\ readLog' = readLog \cup {task[n].path}
    /\ mapWasFull' = (\/ mapWasFull
                       \/ /\ ~WithinConcurrency(InFlight + 1)
                          /\ \E m \in DOMAIN task \ {n} : task[m].pc = "idle")
    /\ UNCHANGED <<inputVars, result, queue, addDirToResult, extraIgnoredFiles,
                   dirPath, childNames, dirs, walkPc, walkErr, copyVars, faults,
                   run, firstResult, firstDest, skipped, consumed, visited,
                   activeCopies, symlinkLog, ensureLog, failLog, outOfOrder,
                   consulted, colVars>>

----------------------------------------------------------------------------
\* copyOrLinkFile (fs.ts:112-159)

\* stat-mode's bits, as read and set at fs.ts:128-134
S_IXUSR == 64
S_IRGRP == 32
S_IXGRP == 8
S_IROTH == 4
S_IXOTH == 1

HasBit(m, b) == (m \div b) % 2 = 1
SetBit(m, b) == IF HasBit(m, b) THEN m ELSE m + b

\* Variant: read is granted to group and others only if the owner can read,
\* as the comment at fs.ts:120 words it
NormalizeModeReadIfOwner(m) ==
    LET m1 == IF HasBit(m, S_IXUSR) THEN SetBit(SetBit(m, S_IXGRP), S_IXOTH) ELSE m
    IN IF HasBit(m, 256) THEN SetBit(SetBit(m1, S_IRGRP), S_IROTH) ELSE m1

\* fs.ts:126-134: stats.mode after the Mode setters have run
NormalizeMode(m) ==
    LET m1 == IF HasBit(m, S_IXUSR) THEN SetBit(SetBit(m, S_IXGRP), S_IXOTH) ELSE m
    IN SetBit(SetBit(m1, S_IRGRP), S_IROTH)

NoStats == [isNull |-> TRUE, mode |-> 0]
Stats(m) == [isNull |-> FALSE, mode |-> m]

\* Variant: a changed mode does not turn the hard link off
CopyOrLinkFileLinksAnyway(stats, hardLink) ==
    LET normalized == IF stats.isNull THEN 0 ELSE NormalizeMode(stats.mode)
    IN IF hardLink
       THEN [op |-> "link", withMode |-> FALSE, mode |-> 0]
       ELSE [op |-> "fcopy", withMode |-> ~stats.isNull, mode |-> normalized]

\* fs.ts:124-159: the filesystem call copyOrLinkFile issues, and the mode
\* option it gives to fcopy
CopyOrLinkFile(stats, hardLink) ==
    LET normalized == IF stats.isNull THEN 0 ELSE NormalizeMode(stats.mode)
        changed == ~stats.isNull /\ normalized # stats.mode
        useLink == IF changed THEN FALSE ELSE hardLink
    IN IF useLink
       THEN [op |-> "link", withMode |-> FALSE, mode |-> 0]
       ELSE [op |-> "fcopy", withMode |-> ~stats.isNull, mode |-> normalized]

\* Variant: the platform is not looked at
ModuleIsUseHardLinkAnyPlatform(e) ==
    /\ e.USE_HARD_LINKS # "false"
    /\ (e.isCi \/ e.USE_HARD_LINKS = "true")

\* fs.ts:112
ModuleIsUseHardLink(e) ==
    /\ e.platform # "win32"
    /\ e.USE_HARD_LINKS # "false"
    /\ (e.isCi \/ e.USE_HARD_LINKS = "true")

----------------------------------------------------------------------------
\* The destination filesystem

Absent == [kind |-> "absent", content |-> <<>>, mode |-> 0, target |-> "",
           linkedTo |-> <<>>]

Get(fs, p) == IF p \in DOMAIN fs THEN fs[p] ELSE Absent
Put(fs, p, e) == (p :> e) @@ fs

Exists(fs, p) == Get(fs, p).kind # "absent"
ParentExists(fs, p) == Get(fs, Parent(p)).kind = "dir"

\* ensureDir: mkdir -p, no-op for what exists
EnsureDir(fs, d) ==
    [q \in DOMAIN fs \cup {SubSeq(d, 1, i) : i \in 1..Len(d)} |->
        IF q \in DOMAIN fs /\ fs[q].kind # "absent" THEN fs[q]
        ELSE IF IsPrefix(q, d) THEN [Absent EXCEPT !.kind = "dir", !.mode = Oct(7, 5, 5)]
        ELSE fs[q]]

\* link(src, dest): a second name of the source's inode
Linked(p) == [kind |-> "file", content |-> tree[p].content, mode |-> tree[p].mode,
              target |-> "", linkedTo |-> p]

\* fcopy(src, dest, {mode}) and writeFile(dest, data): a file of its own
Written(fs, dest, c, m) ==
    [kind |-> "file", content |-> c,
     mode |-> IF Exists(fs, dest) THEN Get(fs, dest).mode ELSE m,
     target |-> "", linkedTo |-> <<>>]

Symlinked(t) == [kind |-> "symlink", content |-> <<>>, mode |-> Oct(7, 7, 7),
                 target |-> t, linkedTo |-> <<>>]

\* what a reader of the destination sees at each path
Observable(fs) ==
    [q \in {r \in DOMAIN fs : fs[r].kind # "absent"} |->
        [kind |-> fs[q].kind, content |-> fs[q].content, target |-> fs[q].target]]

\* readlink: the literal text of the link
Readlink(p) == tree[p].target

\* the content a transformer makes of a file
Transform(c) == <<"t">> \o c

----------------------------------------------------------------------------
\* FileCopier (fs.ts:161-201) and copyDir's consumer (fs.ts:216-233)

\* fs.ts:165
NewFileCopier ==
    ModuleIsUseHardLink(env) /\ isUseHardLinkFunction.kind # "DO_NOT_USE_HARD_LINKS"

\* fs.ts:222, 226
Remap(p) == Replace(p, src, destination)

\* Variant: the predicate is called whatever the flag says
ConsultsFunctionAlways == isUseHardLinkFunction.kind # "undefined"

\* fs.ts:183: the condition under which isUseHardLinkFunction(dest) is called
ConsultsFunction == ~(~isUseHardLink \/ isUseHardLinkFunction.kind = "undefined")

\* fs.ts:183, the last argument
HardLinkArgument(dest) ==
    IF ConsultsFunction
    THEN dest \in isUseHardLinkFunction.allows
    ELSE isUseHardLink

\* the destinations isUseHardLinkFunction has been called for, after a step
\* that took the task of p to t1 through fs.ts:183
Consulted(t1, p) ==
    IF t1.pc \in {"link", "fcopy"} /\ ConsultsFunction
    THEN consulted \cup {Remap(p)} ELSE consulted

Issue(t, op, arg) ==
    [t EXCEPT !.pc = op, !.ops = Append(@, [op |-> op, arg |-> arg])]

\* fs.ts:183, 194: copyOrLinkFile is called and issues link or fcopy
IssueCopyOrLink(t, st, hardLink) ==
    LET r == CopyOrLinkFile(Stats(st.mode), hardLink)
    IN Issue(t, r.op, r.mode)

\* Variant: the transformer is never consulted
TransformerNeverApplies(st) == FALSE

\* fs.ts:170: the transformer is consulted
TransformerApplies(st) == ~transformer.isNull /\ IsFile(st)

\* fs.ts:169-183: copy up to its first await
CopyEnter(t, p, st) ==
    IF TransformerApplies(st) /\ p \in transformer.sync
    THEN [Issue(t, "writeFile", 0) EXCEPT !.data = Transform(tree[p].content)]
    ELSE IF TransformerApplies(st) /\ p \in transformer.async \cup transformer.asyncNull
    THEN [t EXCEPT !.pc = "transform"]
    ELSE IssueCopyOrLink(t, st, HardLinkArgument(Remap(p)))

\* fs.ts:226-232
AfterEnsureDir(t, p, st) ==
    IF IsFile(st) THEN CopyEnter(t, p, st) ELSE Issue(t, "readlink", 0)

\* Variant: the consumer does not return early for a directory or a socket
ConsumerNeverReturnsEarly(st) == FALSE

\* fs.ts:217-219
ConsumerReturnsEarly(st) == ~IsFile(st) /\ ~IsSymbolicLink(st)

\* Variant: the parent is remembered when ensureDir is requested, not when it
\* has completed
NeedsEnsureDirUnlessRequested(parent) == parent \notin DOMAIN ensureLog

\* fs.ts:221
NeedsEnsureDir(parent) == parent \notin createdSourceDirs

\* fs.ts:216-225: copyDir's consumer up to its first await
CopyDirEnter(t, p, st) ==
    IF ConsumerReturnsEarly(st) THEN [t EXCEPT !.pc = "then"]
    ELSE IF NeedsEnsureDir(Parent(p)) THEN Issue(t, "ensureDir", 0)
    ELSE AfterEnsureDir(t, p, st)

\* the consumer is called (fs.ts:71); pc "sync" stands for a result that is
\* no promise
ConsumerEnter(t, p, st) ==
    IF consumer.kind = "copyDir" THEN CopyDirEnter(t, p, st)
    ELSE IF consumer.kind = "async" THEN [t EXCEPT !.pc = "then"]
    ELSE [t EXCEPT !.pc = "sync"]

\* Variant: every error is taken for a cross-device one
AnyErrorIsCrossDevice(e) == TRUE

\* fs.ts:187
IsCrossDevice(e) == e = "EXDEV"

CopyPcs == {"transform", "writeFile", "link", "fcopy"}
IoPcs == {"lstat", "ensureDir", "readlink"} \cup CopyPcs

Bump(f, k) == (k :> (IF k \in DOMAIN f THEN f[k] + 1 ELSE 1)) @@ f

----------------------------------------------------------------------------
\* The steps of one child of the current directory (fs.ts:63-95, 216-233)

taskFrame == <<inputVars, result, queue, addDirToResult, dirPath, childNames,
               linkTask, run, firstResult, firstDest, readLog, visited,
               symlinkLog, mapWasFull, colVars>>

\* a child that sorts before n has not been classified yet
OutOfOrder(n) ==
    \E m \in DOMAIN task : CharCode(m) < CharCode(n) /\ task[m].pc # "done"

\* fs.ts:73-79, 85-91: a directory goes to dirs, anything else is returned
Classified(t, n, isDir) ==
    [t EXCEPT !.pc = "done", !.ret = IF isDir THEN Null ELSE t.path]

\* fs.ts:66-82: lstat completes; the child is skipped, or the consumer is called
LstatDone(n) ==
    /\ n \in DOMAIN task
    /\ task[n].pc = "lstat"
    /\ LET p == task[n].path
           st == Lstat(p)
           t1 == ConsumerEnter(task[n], p, st)
       IN /\ skipped' = IF p \in extraIgnoredFiles
                           \/ (~filter.isNull /\ p \in filter.rejects)
                        THEN skipped \cup {p} ELSE skipped
          /\ IF Skips(p, st)
             THEN /\ task' = [task EXCEPT ![n].pc = "done"]
                  /\ UNCHANGED <<extraIgnoredFiles, dirs, consumed, activeCopies,
                                 ensureLog, outOfOrder, consulted>>
             ELSE /\ consumed' = IF consumer.kind = "null" THEN consumed
                                 ELSE consumed \cup {p}
                  /\ extraIgnoredFiles' = extraIgnoredFiles \cup IgnoredBy(p)
                  /\ IF t1.pc = "sync"
                     THEN /\ task' = [task EXCEPT
                                        ![n] = Classified(t1, n, IsDirectory(st))]
                          /\ dirs' = IF IsDirectory(st) THEN Append(dirs, n) ELSE dirs
                     ELSE /\ task' = [task EXCEPT ![n] = t1]
                          /\ dirs' = dirs
                  /\ activeCopies' = IF t1.pc \in CopyPcs
                                     THEN activeCopies \cup {p} ELSE activeCopies
                  /\ ensureLog' = IF t1.pc = "ensureDir"
                                  THEN Bump(ensureLog, Parent(p)) ELSE ensureLog
                  /\ outOfOrder' = IF t1.pc = "sync" /\ ~IsDirectory(st)
                                   THEN outOfOrder \/ OutOfOrder(n) ELSE outOfOrder
                  /\ consulted' = Consulted(t1, p)
    /\ UNCHANGED <<taskFrame, walkPc, walkErr, isUseHardLink, createdSourceDirs,
                   links, copyPc, destFs, faults, failLog>>

\* fs.ts:83-92: the consumer's promise resolves and the child is classified
ConsumerDone(n) ==
    /\ n \in DOMAIN task
    /\ task[n].pc = "then"
    /\ LET p == task[n].path
           isDir == StatusIsDirectory(p, Lstat(p))
       IN /\ task' = [task EXCEPT ![n] = Classified(@, n, isDir)]
          /\ dirs' = IF isDir THEN Append(dirs, n) ELSE dirs
          /\ outOfOrder' = IF isDir THEN outOfOrder ELSE outOfOrder \/ OutOfOrder(n)
    /\ UNCHANGED <<taskFrame, extraIgnoredFiles, walkPc, walkErr, isUseHardLink,
                   createdSourceDirs, links, copyPc, destFs, faults, skipped,
                   consumed, activeCopies, ensureLog, failLog, consulted>>

\* fs.ts:222-232: ensureDir completes, the parent is remembered, and the
\* entry is copied or its link text is read
EnsureDirDone(n) ==
    /\ n \in DOMAIN task
    /\ task[n].pc = "ensureDir"
    /\ LET p == task[n].path
           t1 == AfterEnsureDir(task[n], p, Lstat(p))
       IN /\ destFs' = EnsureDir(destFs, Remap(Parent(p)))
          /\ createdSourceDirs' = createdSourceDirs \cup {Parent(p)}
          /\ task' = [task EXCEPT ![n] = t1]
          /\ activeCopies' = IF t1.pc \in CopyPcs
                             THEN activeCopies \cup {p} ELSE activeCopies
          /\ consulted' = Consulted(t1, p)
    /\ UNCHANGED <<taskFrame, extraIgnoredFiles, dirs, walkPc, walkErr,
                   isUseHardLink, links, copyPc, faults, skipped, consumed,
                   ensureLog, failLog, outOfOrder>>

\* fs.ts:185-199: an error of copy's try block is caught; EXDEV demotes the
\* copier and the file is copied with hard links off, any other error, and
\* any error of that second copy, is thrown
CopyFails(n, e) ==
    IF IsCrossDevice(e) /\ ~task[n].inCatch
    THEN /\ isUseHardLink' = FALSE
         /\ task' = [task EXCEPT ![n] =
               [IssueCopyOrLink(@, Lstat(task[n].path), FALSE) EXCEPT
                   !.inCatch = TRUE, !.err = e,
                   !.linkErr = IF task[n].pc = "link" THEN e ELSE @]]
         /\ UNCHANGED <<walkPc, walkErr, copyPc, activeCopies, failLog>>
    ELSE /\ TaskRejects(n, e)
         /\ activeCopies' = activeCopies \ {task[n].path}
         /\ isUseHardLink' = isUseHardLink
         /\ failLog' = Append(failLog, e)

\* fs.ts:173-183: the transformer's promise resolves
TransformDone(n) ==
    /\ n \in DOMAIN task
    /\ task[n].pc = "transform"
    /\ LET p == task[n].path
           data == IF p \in transformer.async THEN Transform(tree[p].content)
                   ELSE Null
           t1 == IF data # Null
                 THEN [Issue(task[n], "writeFile", 0) EXCEPT !.data = data]
                 ELSE IssueCopyOrLink(task[n], Lstat(p), HardLinkArgument(Remap(p)))
       IN /\ task' = [task EXCEPT ![n] = t1]
          /\ consulted' = Consulted(t1, p)
    /\ UNCHANGED <<taskFrame, extraIgnoredFiles, dirs, walkPc, walkErr,
                   isUseHardLink, createdSourceDirs, links, copyPc, destFs, faults,
                   skipped, consumed, activeCopies, ensureLog, failLog, outOfOrder>>

\* fs.ts:178-179: writeFile completes; its error is no EXDEV and is rethrown
WriteFileDone(n) ==
    /\ n \in DOMAIN task
    /\ task[n].pc = "writeFile"
    /\ LET dest == Remap(task[n].path)
       IN IF ParentExists(destFs, dest)
          THEN /\ destFs' = Put(destFs, dest,
                                Written(destFs, dest, task[n].data, Oct(6, 4, 4)))
               /\ task' = [task EXCEPT ![n].pc = "then"]
               /\ activeCopies' = activeCopies \ {task[n].path}
               /\ UNCHANGED <<walkPc, walkErr, copyPc, isUseHardLink, failLog>>
          ELSE /\ CopyFails(n, "ENOENT")
               /\ destFs' = destFs
    /\ UNCHANGED <<taskFrame, extraIgnoredFiles, dirs, createdSourceDirs, links,
                   faults, skipped, consumed, ensureLog, outOfOrder, consulted>>

\* fs.ts:153: link completes
LinkDone(n) ==
    /\ n \in DOMAIN task
    /\ task[n].pc = "link"
    /\ LET p == task[n].path
           dest == Remap(p)
       IN IF ~ParentExists(destFs, dest) \/ Exists(destFs, dest)
          THEN /\ CopyFails(n, IF Exists(destFs, dest) THEN "EEXIST" ELSE "ENOENT")
               /\ destFs' = destFs
          ELSE \E outcome \in {"ok", "EXDEV"} :
                 IF outcome = "ok"
                 THEN /\ destFs' = Put(destFs, dest, Linked(p))
                      /\ task' = [task EXCEPT ![n].pc = "then"]
                      /\ activeCopies' = activeCopies \ {p}
                      /\ UNCHANGED <<walkPc, walkErr, copyPc, isUseHardLink, failLog>>
                 ELSE /\ CopyFails(n, outcome)
                      /\ destFs' = destFs
    /\ UNCHANGED <<taskFrame, extraIgnoredFiles, dirs, createdSourceDirs, links,
                   faults, skipped, consumed, ensureLog, outOfOrder, consulted>>

\* fs.ts:156-158: fcopy completes
FcopyDone(n) ==
    /\ n \in DOMAIN task
    /\ task[n].pc = "fcopy"
    /\ LET p == task[n].path
           dest == Remap(p)
           mode == task[n].ops[Len(task[n].ops)].arg
       IN IF ParentExists(destFs, dest)
          THEN /\ destFs' = Put(destFs, dest,
                                Written(destFs, dest, tree[p].content, mode))
               /\ task' = [task EXCEPT ![n].pc = "then"]
               /\ activeCopies' = activeCopies \ {task[n].path}
               /\ UNCHANGED <<walkPc, walkErr, copyPc, isUseHardLink, failLog>>
          ELSE /\ CopyFails(n, "ENOENT")
               /\ destFs' = destFs
    /\ UNCHANGED <<taskFrame, extraIgnoredFiles, dirs, createdSourceDirs, links,
                   faults, skipped, consumed, ensureLog, outOfOrder, consulted>>

\* fs.ts:231: readlink completes and the pending link is recorded
ReadlinkDone(n) ==
    /\ n \in DOMAIN task
    /\ task[n].pc = "readlink"
    /\ links' = Append(links, [file |-> Remap(task[n].path),
                               link |-> Readlink(task[n].path)])
    /\ task' = [task EXCEPT ![n].pc = "then"]
    /\ UNCHANGED <<taskFrame, extraIgnoredFiles, dirs, walkPc, walkErr,
                   isUseHardLink, createdSourceDirs, copyPc, destFs, faults,
                   skipped, consumed, activeCopies, ensureLog, failLog, outOfOrder,
                   consulted>>

\* a pending filesystem call, a transformer or a consumer other than copyDir's
\* fails with an error that is no EXDEV: nothing catches it (fs.ts:196-198)
TaskIoFail(n) ==
    /\ faults < MaxFaults
    /\ n \in DOMAIN task
    /\ task[n].pc \in IoPcs \cup (IF consumer.kind = "async" THEN {"then"} ELSE {})
    /\ faults' = faults + 1
    /\ IF task[n].pc \in CopyPcs
       THEN CopyFails(n, "EIO")
       ELSE /\ TaskRejects(n, "EIO")
            /\ failLog' = Append(failLog, "EIO")
            /\ UNCHANGED <<isUseHardLink, activeCopies>>
    /\ UNCHANGED <<taskFrame, extraIgnoredFiles, dirs, createdSourceDirs, links,
                   destFs, skipped, consumed, ensureLog, outOfOrder, consulted>>

----------------------------------------------------------------------------
\* The rest of walk's loop (fs.ts:49, 95-109)

\* fs.ts:95-106: the map has resolved; kept children are appended in the order
\* of childNames, dirs is sorted and pushed
MapDone ==
    /\ walkPc = "map"
    /\ MapSettled
    /\ result' = result \o KeptPaths(childNames)
    /\ queue' = PushAll(queue, Sort(dirs))
    /\ walkPc' = "pop"
    /\ UNCHANGED <<inputVars, addDirToResult, extraIgnoredFiles, dirPath,
                   childNames, dirs, task, walkErr, copyVars, faults, histVars,
                   colVars>>

\* fs.ts:49, 109: the queue is empty and walk returns result
WalkReturn ==
    /\ walkPc = "pop"
    /\ queue = <<>>
    /\ walkPc' = "done"
    /\ UNCHANGED <<inputVars, result, queue, addDirToResult, extraIgnoredFiles,
                   dirPath, childNames, dirs, task, walkErr, copyVars, faults,
                   histVars, colVars>>

\* fs.ts:58: readdir fails
ReaddirFail ==
    /\ faults < MaxFaults
    /\ walkPc = "readdir"
    /\ faults' = faults + 1
    /\ walkPc' = "failed"
    /\ walkErr' = "EIO"
    /\ copyPc' = IF copyPc = "walk" THEN "failed" ELSE copyPc
    /\ failLog' = Append(failLog, "EIO")
    /\ UNCHANGED <<inputVars, result, queue, addDirToResult, extraIgnoredFiles,
                   dirPath, childNames, dirs, task, isUseHardLink,
                   createdSourceDirs, links, linkTask, destFs, run, firstResult,
                   firstDest, skipped, consumed, readLog, visited, activeCopies,
                   symlinkLog, ensureLog, outOfOrder, consulted, mapWasFull,
                   colVars>>

----------------------------------------------------------------------------
\* copyDir after the walk (fs.ts:234)

symlinkFrame == <<inputVars, walkVars, isUseHardLink, createdSourceDirs, links,
                  run, firstResult, firstDest, skipped, consumed, readLog,
                  visited, activeCopies, ensureLog, failLog, outOfOrder,
                  consulted, mapWasFull, colVars>>

LinksInFlight == Cardinality({i \in DOMAIN linkTask : linkTask[i] = "pending"})

\* walk has resolved: the map over links begins
StartSymlinks ==
    /\ walkPc = "done"
    /\ copyPc = "walk"
    /\ copyPc' = "symlinks"
    /\ linkTask' = [i \in 1..Len(links) |-> "idle"]
    /\ UNCHANGED <<symlinkFrame, destFs, faults, symlinkLog>>

\* symlink(it.link, it.file) is issued
SymlinkStart(i) ==
    /\ copyPc = "symlinks"
    /\ i \in DOMAIN linkTask
    /\ linkTask[i] = "idle"
    /\ WithinConcurrency(LinksInFlight)
    /\ linkTask' = [linkTask EXCEPT ![i] = "pending"]
    /\ symlinkLog' = symlinkLog \cup {links[i].file}
    /\ UNCHANGED <<symlinkFrame, copyPc, destFs, faults>>

\* symlink completes
SymlinkDone(i) ==
    /\ i \in DOMAIN linkTask
    /\ linkTask[i] = "pending"
    /\ IF ParentExists(destFs, links[i].file) /\ ~Exists(destFs, links[i].file)
       THEN /\ destFs' = Put(destFs, links[i].file, Symlinked(links[i].link))
            /\ linkTask' = [linkTask EXCEPT ![i] = "done"]
            /\ copyPc' = copyPc
       ELSE /\ linkTask' = [linkTask EXCEPT ![i] = "failed"]
            /\ copyPc' = IF copyPc = "symlinks" THEN "failed" ELSE copyPc
            /\ destFs' = destFs
    /\ UNCHANGED <<symlinkFrame, faults, symlinkLog>>

\* symlink fails for a reason of the environment
SymlinkIoFail(i) ==
    /\ faults < MaxFaults
    /\ i \in DOMAIN linkTask
    /\ linkTask[i] = "pending"
    /\ faults' = faults + 1
    /\ linkTask' = [linkTask EXCEPT ![i] = "failed"]
    /\ copyPc' = IF copyPc = "symlinks" THEN "failed" ELSE copyPc
    /\ UNCHANGED <<symlinkFrame, destFs, symlinkLog>>

\* every symlink is made: copyDir's promise resolves
CopyDirDone ==
    /\ copyPc = "symlinks"
    /\ \A i \in DOMAIN linkTask : linkTask[i] = "done"
    /\ copyPc' = "done"
    /\ UNCHANGED <<symlinkFrame, linkTask, destFs, faults, symlinkLog>>

----------------------------------------------------------------------------
\* Initial states and a second call on the same inputs

WalkStart ==
    /\ result = <<>>
    /\ queue = <<src>>
    /\ addDirToResult = InitialAddDirToResult
    /\ extraIgnoredFiles = {}
    /\ dirPath = Null
    /\ childNames = <<>>
    /\ dirs = <<>>
    /\ task = <<>>
    /\ walkPc = "pop"
    /\ walkErr = ""

HistStart ==
    /\ run = 1
    /\ firstResult = <<>>
    /\ firstDest = <<>>
    /\ skipped = {}
    /\ consumed = {}
    /\ readLog = {}
    /\ visited = {}
    /\ activeCopies = {}
    /\ symlinkLog = {}
    /\ ensureLog = <<>>
    /\ failLog = <<>>
    /\ outOfOrder = FALSE
    /\ consulted = {}
    /\ mapWasFull = FALSE

NoFileCopier ==
    /\ transformer = NoTransformer
    /\ isUseHardLinkFunction = UndefinedFunction
    /\ isUseHardLink = FALSE
    /\ createdSourceDirs = {}
    /\ links = <<>>
    /\ linkTask = <<>>
    /\ copyPc = "none"
    /\ destFs = <<>>

NoCopyDir ==
    /\ NoFileCopier
    /\ env = NoEnv

NoCall == [op |-> "none", withMode |-> FALSE, mode |-> 0]

NoCopyOrLink ==
    /\ colIn = [stats |-> NoStats, hardLink |-> FALSE, omitted |-> FALSE]
    /\ colOut = NoCall

CopyFilters ==
    {NoFilter,
     RejectFilter({<<"src", "a">>, <<"src", "d">>}),
     RejectFilter({<<"src", "l">>, <<"src", "d", "l">>})}

Transformers ==
    {NoTransformer,
     [isNull |-> FALSE, sync |-> {<<"src", "a">>}, async |-> {<<"src", "d", "b">>},
      asyncNull |-> {}],
     [isNull |-> FALSE, sync |-> {}, async |-> {}, asyncNull |-> {<<"src", "a">>}]}

HardLinkFunctions ==
    {UndefinedFunction, DO_NOT_USE_HARD_LINKS,
     [kind |-> "fn", allows |-> {<<"dst", "a">>}]}

CopyEnvs ==
    {[platform |-> "linux", USE_HARD_LINKS |-> "true", isCi |-> FALSE],
     [platform |-> "linux", USE_HARD_LINKS |-> "unset", isCi |-> FALSE]}

\* walk(initialDirPath, filter, consumer)
InitWalk ==
    /\ tree \in WalkTrees
    /\ filter \in WalkFilters
    /\ consumer \in WalkConsumers
    /\ NoCopyDir
    /\ WalkStart
    /\ HistStart
    /\ faults = 0
    /\ NoCopyOrLink

\* copyDir(src, destination, filter, transformer, isUseHardLink)
Init ==
    /\ tree \in Trees
    /\ filter \in CopyFilters
    /\ consumer = CopyDirConsumer
    /\ transformer \in Transformers
    /\ isUseHardLinkFunction \in HardLinkFunctions
    /\ env \in CopyEnvs
    /\ isUseHardLink = NewFileCopier
    /\ createdSourceDirs = {}
    /\ links = <<>>
    /\ linkTask = <<>>
    /\ copyPc = "walk"
    /\ destFs = <<>>
    /\ WalkStart
    /\ HistStart
    /\ faults = 0
    /\ NoCopyOrLink

\* copyDir of the wide tree; the filter keeps one of the wide directory's
\* children
InitWide ==
    /\ tree = WideTree
    /\ filter = RejectFilter({WideChild(i) : i \in 2..MaxChildren})
    /\ consumer = CopyDirConsumer
    /\ transformer = NoTransformer
    /\ isUseHardLinkFunction = UndefinedFunction
    /\ env = NoEnv
    /\ isUseHardLink = NewFileCopier
    /\ createdSourceDirs = {}
    /\ links = <<>>
    /\ linkTask = <<>>
    /\ copyPc = "walk"
    /\ destFs = <<>>
    /\ WalkStart
    /\ HistStart
    /\ faults = 0
    /\ NoCopyOrLink

\* the same walk is run again on the unmodified tree
SecondWalk ==
    /\ run = 1
    /\ copyPc = "none"
    /\ walkPc = "done"
    /\ run' = 2
    /\ firstResult' = result
    /\ result' = <<>>
    /\ queue' = <<src>>
    /\ addDirToResult' = InitialAddDirToResult
    /\ extraIgnoredFiles' = {}
    /\ dirPath' = Null
    /\ childNames' = <<>>
    /\ dirs' = <<>>
    /\ task' = <<>>
    /\ walkPc' = "pop"
    /\ skipped' = {}
    /\ consumed' = {}
    /\ readLog' = {}
    /\ visited' = {}
    /\ failLog' = <<>>
    /\ outOfOrder' = FALSE
    /\ mapWasFull' = FALSE
    /\ UNCHANGED <<inputVars, walkErr, copyVars, faults, firstDest, activeCopies,
                   symlinkLog, ensureLog, consulted, colVars>>

\* the same copyDir is run again into the destination the first run left
SecondCopyDir ==
    /\ run = 1
    /\ copyPc = "done"
    /\ run' = 2
    /\ firstResult' = result
    /\ firstDest' = destFs
    /\ result' = <<>>
    /\ queue' = <<src>>
    /\ addDirToResult' = InitialAddDirToResult
    /\ extraIgnoredFiles' = {}
    /\ dirPath' = Null
    /\ childNames' = <<>>
    /\ dirs' = <<>>
    /\ task' = <<>>
    /\ walkPc' = "pop"
    /\ isUseHardLink' = NewFileCopier
    /\ createdSourceDirs' = {}
    /\ links' = <<>>
    /\ linkTask' = <<>>
    /\ copyPc' = "walk"
    /\ skipped' = {}
    /\ consumed' = {}
    /\ readLog' = {}
    /\ visited' = {}
    /\ symlinkLog' = {}
    /\ ensureLog' = <<>>
    /\ failLog' = <<>>
    /\ outOfOrder' = FALSE
    /\ consulted' = {}
    /\ mapWasFull' = FALSE
    /\ UNCHANGED <<inputVars, walkErr, destFs, faults, activeCopies, colVars>>

\* process.platform, process.env.USE_HARD_LINKS and is-ci (fs.ts:112)
Envs ==
    [platform : {"linux", "darwin", "win32"},
     USE_HARD_LINKS : {"true", "false", "unset"},
     isCi : BOOLEAN]

\* copyOrLinkFile(src, dest, stats, isUseHardLink) for any status and flag,
\* and copyOrLinkFile(src, dest, stats) in any environment
InitMode ==
    /\ tree = Tree1
    /\ filter = NoFilter
    /\ consumer = NoConsumer
    /\ NoFileCopier
    /\ WalkStart
    /\ HistStart
    /\ faults = 0
    /\ \/ /\ env = NoEnv
          /\ colIn \in [stats : {NoStats} \cup {Stats(m) : m \in 0..MaxMode},
                        hardLink : BOOLEAN, omitted : {FALSE}]
       \/ /\ env \in Envs
          /\ colIn \in [stats : {NoStats, Stats(Oct(6, 4, 4)), Stats(Oct(7, 0, 0))},
                        hardLink : {FALSE}, omitted : {TRUE}]
    /\ colOut = NoCall

\* fs.ts:124: the parameter isUseHardLink, _isUseHardLink if it is omitted
IsUseHardLinkParameter ==
    IF colIn.omitted THEN ModuleIsUseHardLink(env) ELSE colIn.hardLink

CallCopyOrLinkFile ==
    /\ colOut = NoCall
    /\ colOut' = CopyOrLinkFile(colIn.stats, IsUseHardLinkParameter)
    /\ UNCHANGED <<inputVars, walkVars, copyVars, faults, histVars, colIn>>

----------------------------------------------------------------------------
\* Specifications

WalkStep ==
    \/ WalkPop
    \/ ReaddirDone
    \/ ReaddirFail
    \/ \E n \in DOMAIN task : StartChild(n)
    \/ \E n \in DOMAIN task : LstatDone(n)
    \/ \E n \in DOMAIN task : ConsumerDone(n)
    \/ \E n \in DOMAIN task : TaskIoFail(n)
    \/ MapDone
    \/ WalkReturn

CopyStep ==
    \/ \E n \in DOMAIN task : EnsureDirDone(n)
    \/ \E n \in DOMAIN task : TransformDone(n)
    \/ \E n \in DOMAIN task : WriteFileDone(n)
    \/ \E n \in DOMAIN task : LinkDone(n)
    \/ \E n \in DOMAIN task : FcopyDone(n)
    \/ \E n \in DOMAIN task : ReadlinkDone(n)
    \/ StartSymlinks
    \/ \E i \in DOMAIN linkTask : SymlinkStart(i)
    \/ \E i \in DOMAIN linkTask : SymlinkDone(i)
    \/ \E i \in DOMAIN linkTask : SymlinkIoFail(i)
    \/ CopyDirDone

\* copyDir, twice
Next == WalkStep \/ CopyStep \/ SecondCopyDir
Spec == Init /\ [][Next]_vars

\* walk with a filter and a consumer of the caller, twice
NextWalk == WalkStep \/ SecondWalk
SpecWalk == InitWalk /\ [][NextWalk]_vars

\* the same, where a callback that is ready to run is run: the event loop
\* leaves no completed call or resolved promise unserved
SpecWalkLive == InitWalk /\ [][NextWalk]_vars /\ WF_vars(NextWalk)

\* copyDir of the wide tree, where every call of the filesystem succeeds
NextWide ==
    \/ WalkPop
    \/ ReaddirDone
    \/ \E n \in DOMAIN task : StartChild(n)
    \/ \E n \in DOMAIN task : LstatDone(n)
    \/ \E n \in DOMAIN task : ConsumerDone(n)
    \/ MapDone
    \/ WalkReturn
    \/ \E n \in DOMAIN task : EnsureDirDone(n)
    \/ \E n \in DOMAIN task : ReadlinkDone(n)
    \/ StartSymlinks
    \/ \E i \in DOMAIN linkTask : SymlinkStart(i)
    \/ \E i \in DOMAIN linkTask : SymlinkDone(i)
    \/ CopyDirDone
SpecWide == InitWide /\ [][NextWide]_vars

\* copyOrLinkFile alone
NextMode == CallCopyOrLinkFile
SpecMode == InitMode /\ [][NextMode]_vars

----------------------------------------------------------------------------
\* Properties

\* the filter rejects neither the path nor a directory above it
KeptByFilter(p) ==
    \A i \in 2..Len(p) : filter.isNull \/ SubSeq(p, 1, i) \notin filter.rejects

KeptFiles == {p \in DOMAIN tree : IsFile(tree[p]) /\ KeptByFilter(p)}
KeptLinks == {p \in DOMAIN tree : IsSymbolicLink(tree[p]) /\ KeptByFilter(p)}

OpsOf(t) == {t.ops[i].op : i \in 1..Len(t.ops)}
LastOp(t) == t.ops[Len(t.ops)]

\* C1: once copyDir has issued a symlink(), no FileCopier.copy of the call is
\* still running, and every regular file that passed the filter is in place.
C1_FilesBeforeSymlinks ==
    symlinkLog # {} =>
        /\ activeCopies = {}
        /\ \A p \in KeptFiles : Get(destFs, Remap(p)).kind = "file"

C1_Witness ==
    /\ run = 1
    /\ symlinkLog # {}
    /\ \E p \in KeptFiles : Get(destFs, Remap(p)).kind = "file"

\* C2 as stated: no element of walk's result has a directory status.
C2_NoDirectoryInResult ==
    \A i \in 1..Len(result) : ~StatusIsDirectory(result[i], Lstat(result[i]))

\* C2 amended: the root is never in the result and no skipped path is; an
\* element has a directory status exactly if walk popped it for traversal,
\* and every directory walk popped, the root apart, is in the result.
C2_DirectoriesWhenPopped ==
    /\ \A i \in 1..Len(result) :
          /\ result[i] # src
          /\ result[i] \notin skipped
          /\ StatusIsDirectory(result[i], Lstat(result[i])) <=> result[i] \in visited
    /\ \A d \in visited : d # src => d \in Range(result)

C2_Witness ==
    /\ walkPc = "done"
    /\ \E i \in 1..Len(result) : StatusIsDirectory(result[i], Lstat(result[i]))
    /\ \E i \in 1..Len(result) : ~StatusIsDirectory(result[i], Lstat(result[i]))

\* C3: a child that was in the ignore set when inspected, or that the filter
\* rejected, is not in the result, was not given to the consumer, is not pushed
\* for traversal, and nothing under it is read or in the result.
C3_SkippedContributesNothing ==
    \A p \in skipped :
        /\ p \notin consumed
        /\ p \notin visited
        /\ p \notin Range(queue)
        /\ Parent(p) = dirPath => p[Len(p)] \notin Range(dirs)
        /\ \A q \in Range(result) : ~IsPrefix(p, q)
        /\ \A q \in readLog : IsPrefix(p, q) => q = p

C3_Witness ==
    /\ walkPc = "done"
    /\ \E p \in skipped \cap extraIgnoredFiles :
          IsDirectory(tree[p]) /\ Children(p) # {}

ModeBits == {1, 2, 4, 8, 16, 32, 64, 128, 256, 512, 1024, 2048, 4096, 8192}

\* the bit of the normalized mode, as the claim words it
ExpectedBit(m, b) ==
    \/ HasBit(m, b)
    \/ b \in {S_IRGRP, S_IROTH}
    \/ b \in {S_IXGRP, S_IXOTH} /\ HasBit(m, S_IXUSR)

C5_CrossDeviceFallsBack ==
    \A n \in DOMAIN task :
        LET t == task[n]
            dest == Get(destFs, Remap(t.path))
        IN /\ t.linkErr = "EXDEV" =>
                /\ Len(t.ops) >= 2
                /\ t.ops[Len(t.ops) - 1].op = "link"
                /\ LastOp(t) = [op |-> "fcopy", arg |-> NormalizeMode(tree[t.path].mode)]
                /\ t.pc \in {"fcopy", "then", "done", "failed"}
                /\ t.pc \in {"then", "done"} =>
                      /\ dest.kind = "file"
                      /\ dest.content = tree[t.path].content
                      /\ dest.linkedTo = Null
                /\ t.pc = "failed" => t.err # "EXDEV"
           /\ t.linkErr \notin {"", "EXDEV"} =>
                /\ t.pc = "failed"
                /\ t.err = t.linkErr
                /\ LastOp(t).op = "link"
                /\ walkPc = "failed"
                /\ copyPc = "failed"

C5_Witness ==
    \E n \in DOMAIN task :
        /\ task[n].linkErr = "EXDEV"
        /\ task[n].pc = "done"
        /\ Get(destFs, Remap(task[n].path)).content = tree[task[n].path].content

\* C6: for a regular file given to a configured transformer, content that is
\* not null is what writeFile puts at the destination and neither link nor
\* fcopy is issued; null content leaves the file to link or fcopy.
C6_TransformerOutputWritten ==
    \A n \in DOMAIN task :
        LET t == task[n]
            p == t.path
            dest == Get(destFs, Remap(p))
        IN (~transformer.isNull /\ IsFile(tree[p]) /\ p \notin skipped) =>
              IF p \in transformer.sync \cup transformer.async
              THEN /\ OpsOf(t) \cap {"link", "fcopy"} = {}
                   /\ t.pc \in {"then", "done"} =>
                         /\ LastOp(t).op = "writeFile"
                         /\ dest.kind = "file"
                         /\ dest.content = Transform(tree[p].content)
              ELSE /\ "writeFile" \notin OpsOf(t)
                   /\ t.pc \in {"then", "done"} => LastOp(t).op \in {"link", "fcopy"}

C6_Witness ==
    \E n \in DOMAIN task :
        /\ task[n].path \in transformer.async
        /\ task[n].pc = "done"
        /\ Get(destFs, Remap(task[n].path)).content = Transform(tree[task[n].path].content)

\* C7: every directory of the destination is the remapped parent, or above the
\* remapped parent, of a regular file or symbolic link that passed the filter.
C7_NoEmptyDirectory ==
    \A q \in DOMAIN destFs :
        destFs[q].kind = "dir" =>
            \E p \in KeptFiles \cup KeptLinks : IsPrefix(q, Remap(Parent(p)))

C7_Witness ==
    /\ copyPc = "done"
    /\ <<"src", "e">> \in visited
    /\ Get(destFs, <<"dst", "d">>).kind = "dir"
    /\ ~Exists(destFs, <<"dst", "e">>)

\* C8 as stated: with no failure injected, the second copyDir completes and the
\* destination shows what the first run left.
C8_Idempotent ==
    (run = 2 /\ faults = 0) =>
        /\ copyPc # "failed"
        /\ Observable(destFs) = Observable(firstDest)

\* C8 amended: with no other failure injected, the second copyDir never changes
\* what the destination shows, and it completes only if the first run made no
\* hard link and no symbolic link.
C8_SecondRunKeepsContent ==
    (run = 2 /\ faults = 0) =>
        /\ Observable(destFs) = Observable(firstDest)
        /\ copyPc = "done" =>
              \A q \in DOMAIN firstDest :
                  firstDest[q].kind # "symlink" /\ firstDest[q].linkedTo = Null

C8_Witness ==
    /\ run = 2
    /\ copyPc = "done"
    /\ \E q \in DOMAIN destFs : destFs[q].kind = "file"

\* C9: a second walk of the unmodified tree returns the sequence the first did.
C9_Deterministic ==
    (run = 2 /\ walkPc = "done") => result = firstResult

\* C10: a symbolic link that passed the filter is never read as a directory nor
\* copied as a file; it is recorded at most once, once when the walk is over,
\* under its remapped path with its literal link text, nothing else is
\* recorded, and after copyDir the destination holds that link.
C10_SymlinksRecreated ==
    /\ \A p \in KeptLinks :
          LET recs == {i \in 1..Len(links) : links[i].file = Remap(p)}
          IN /\ Cardinality(recs) <= 1
             /\ \A i \in recs : links[i].link = tree[p].target
             /\ copyPc \in {"symlinks", "done"} => Cardinality(recs) = 1
             /\ p \notin visited
             /\ Get(destFs, Remap(p)).kind \in {"absent", "symlink"}
             /\ \A n \in DOMAIN task :
                   task[n].path = p => OpsOf(task[n]) \subseteq {"ensureDir", "readlink"}
             /\ copyPc = "done" => Get(destFs, Remap(p)) = Symlinked(tree[p].target)
    /\ \A i \in 1..Len(links) : links[i].file \in {Remap(p) : p \in KeptLinks}

C10_Witness ==
    /\ copyPc = "done"
    /\ \E p \in KeptLinks : Get(destFs, Remap(p)).kind = "symlink"

\* C11: once a step of copyDir's walk phase has failed without being recovered,
\* walk and copyDir are rejected with the first such error, and no symlink()
\* is ever issued nor any symbolic link made by that call.
C11_WalkFailureMakesNoSymlink ==
    failLog # <<>> =>
        /\ walkPc = "failed"
        /\ copyPc = "failed"
        /\ walkErr = failLog[1]
        /\ symlinkLog = {}
        /\ linkTask = <<>>
        /\ \A q \in DOMAIN destFs :
              destFs[q].kind = "symlink" => Get(firstDest, q) = destFs[q]

C11_Witness ==
    /\ failLog # <<>>
    /\ copyPc = "failed"
    /\ links # <<>>
    /\ \A n \in DOMAIN task : task[n].pc \in {"done", "failed"}

\* the elements of the result that are non-directory children of directory d
NonDirectoryChildren(d) ==
    {i \in 1..Len(result) : Parent(result[i]) = d /\ result[i] \notin visited}

\* C12: the kept non-directory children of one directory stand in the result
\* in ascending order of their names, whatever order their lstat calls and
\* consumers completed in.
C12_ChildrenInNameOrder ==
    \A d \in visited :
        \A i, j \in NonDirectoryChildren(d) :
            i < j => CharCode(result[i][Len(result[i])]) < CharCode(result[j][Len(result[j])])

C12_Witness ==
    /\ tree = Tree3
    /\ filter.isNull
    /\ outOfOrder
    /\ walkPc = "done"
    /\ Cardinality(NonDirectoryChildren(src)) = 3

\* the elements of the result that walk popped as subdirectories of d, which
\* stand in the result in the order they were popped in
SubdirectoriesVisited(d) ==
    {i \in 1..Len(result) : Parent(result[i]) = d /\ result[i] \in visited}

NameCode(p) == CharCode(p[Len(p)])

\* C13 as stated: sibling subdirectories are visited in ascending order of
\* name, each after the parent's non-directory children were appended.
C13_SiblingDirectoriesAscending ==
    \A d \in visited :
        /\ \A i, j \in SubdirectoriesVisited(d) :
              i < j => NameCode(result[i]) < NameCode(result[j])
        /\ \A i \in NonDirectoryChildren(d), j \in SubdirectoriesVisited(d) : i < j

\* C13 amended: sibling subdirectories are visited in descending order of
\* name, each after the parent's non-directory children were appended, and
\* everything a subdirectory emits comes before the next sibling is visited.
C13_SiblingDirectoriesDescending ==
    \A d \in visited :
        /\ \A i, j \in SubdirectoriesVisited(d) :
              i < j => /\ NameCode(result[i]) > NameCode(result[j])
                       /\ \A k \in 1..Len(result) :
                             IsPrefix(result[i], result[k]) => k < j
        /\ \A i \in NonDirectoryChildren(d), j \in SubdirectoriesVisited(d) : i < j

C13_Witness ==
    /\ walkPc = "done"
    /\ Cardinality(SubdirectoriesVisited(src)) = 2
    /\ NonDirectoryChildren(src) # {}
    /\ NonDirectoryChildren(<<"src", "d">>) # {}

\* normalization changes mode m, in the claim's words
ModeChanges(m) == \E b \in ModeBits : HasBit(m, b) # ExpectedBit(m, b)

\* C14: with a status whose mode normalization changes, copyOrLinkFile issues
\* no link() but a content copy with the normalized mode, hard link requested
\* or not; with the mode unchanged and a hard link requested it issues link()
\* and no content copy.
C14_ModeChangeForbidsLink ==
    (colOut.op # "none" /\ ~colIn.stats.isNull) =>
        IF ModeChanges(colIn.stats.mode)
        THEN /\ colOut.op = "fcopy"
             /\ colOut.withMode
             /\ \A b \in ModeBits :
                   HasBit(colOut.mode, b) <=> ExpectedBit(colIn.stats.mode, b)
        ELSE IsUseHardLinkParameter => colOut.op = "link"

C14_Witness ==
    /\ colIn.hardLink
    /\ colIn.stats = Stats(Oct(6, 0, 0))
    /\ colOut = [op |-> "fcopy", withMode |-> TRUE, mode |-> Oct(6, 4, 4)]

\* the step issues link() for child n
IssuesLink(n) ==
    /\ n \in DOMAIN task'
    /\ task'[n].path = task[n].path
    /\ Len(task'[n].ops) > Len(task[n].ops)
    /\ LastOp(task'[n]).op = "link"

\* the step sets the flag of the FileCopier, or calls its predicate
FlagStep ==
    /\ isUseHardLink' # isUseHardLink =>
          /\ isUseHardLink
          /\ ~isUseHardLink'
          /\ \E n \in DOMAIN task : task[n].pc = "link" /\ task'[n].linkErr = "EXDEV"
    /\ \A n \in DOMAIN task : IssuesLink(n) => isUseHardLink
    /\ consulted' # consulted => isUseHardLink

\* C15: within one FileCopier the flag isUseHardLink only goes from true to
\* false, and only on a cross-device failure of link(); link() is issued, and
\* the per-destination predicate is called, only while the flag is true.
C15_FlagOnlyDemoted == [][run' = run => FlagStep]_vars

C15_Witness ==
    /\ NewFileCopier
    /\ ~isUseHardLink
    /\ isUseHardLinkFunction.kind = "undefined"
    /\ \E n \in DOMAIN task :
          /\ task[n].path \in transformer.asyncNull
          /\ ~ModeChanges(tree[task[n].path].mode)
          /\ OpsOf(task[n]) = {"fcopy"}
          /\ task[n].pc = "done"

\* calls of the filesystem that one walk or copyDir has pending
PendingCalls ==
    Cardinality({n \in DOMAIN task : task[n].pc \in IoPcs})
    + (IF walkPc = "readdir" THEN 1 ELSE 0)
    + LinksInFlight

\* C16: never more than MAX_FILE_REQUESTS (8) children of a directory are
\* being processed, never more than 8 symlink() calls are pending, and never
\* more than 8 calls of the filesystem are pending in all.
C16_AtMostEightInFlight ==
    /\ InFlight <= MAX_FILE_REQUESTS
    /\ LinksInFlight <= MAX_FILE_REQUESTS
    /\ PendingCalls <= MAX_FILE_REQUESTS

C16_Witness ==
    /\ mapWasFull
    /\ LinksInFlight = MAX_FILE_REQUESTS
    /\ \E i \in DOMAIN linkTask : linkTask[i] = "idle"

\* C17: during one copyDir call ensureDir is requested at most once for the
\* destination of each source parent directory.
C17_EnsureDirOncePerParent ==
    \A d \in DOMAIN ensureLog : ensureLog[d] <= 1

\* copyOrLinkFile was called without its last argument for a file whose mode
\* needs no change: it links exactly if the process-wide default is on
DefaultObserved ==
    /\ colOut.op # "none"
    /\ colIn.omitted
    /\ colIn.stats.isNull \/ ~ModeChanges(colIn.stats.mode)

\* what USE_HARD_LINKS and the detection of a CI environment ask for
OverrideAsksFor(on) ==
    /\ env.USE_HARD_LINKS = "true" => on
    /\ env.USE_HARD_LINKS = "false" => ~on
    /\ env.USE_HARD_LINKS = "unset" => (on <=> env.isCi)

\* C18 as stated: on every platform the default is on if USE_HARD_LINKS is
\* "true", off if it is "false", and otherwise on exactly in a CI environment.
C18_OverrideOnEveryPlatform ==
    DefaultObserved => OverrideAsksFor(colOut.op = "link")

\* C18 amended: on win32 the default is off whatever USE_HARD_LINKS and CI say;
\* on every other platform it is on if USE_HARD_LINKS is "true", off if it is
\* "false", and otherwise on exactly in a CI environment.
C18_OverrideExceptOnWin32 ==
    DefaultObserved =>
        IF env.platform = "win32" THEN colOut.op = "fcopy"
        ELSE OverrideAsksFor(colOut.op = "link")

C18_Witness ==
    /\ DefaultObserved
    /\ env = [platform |-> "win32", USE_HARD_LINKS |-> "true", isCi |-> TRUE]
    /\ colOut.op = "fcopy"

ReplicationOps == {"link", "fcopy", "writeFile"}

\* C19: link, fcopy or writeFile is issued for a file, and symlink for a link,
\* only when an ensureDir for the destination parent has completed: the source
\* parent is in createdSourceDirs and the destination parent is a directory.
C19_ReplicationAfterEnsureDir ==
    /\ \A n \in DOMAIN task :
          OpsOf(task[n]) \cap ReplicationOps # {} =>
              /\ Parent(task[n].path) \in createdSourceDirs
              /\ ParentExists(destFs, Remap(task[n].path))
    /\ \A q \in symlinkLog :
          /\ ParentExists(destFs, q)
          /\ \E p \in KeptLinks : Remap(p) = q /\ Parent(p) \in createdSourceDirs

C19_Witness ==
    /\ copyPc = "done"
    /\ symlinkLog # {}
    /\ \E n \in DOMAIN task :
          /\ "ensureDir" \notin OpsOf(task[n])
          /\ OpsOf(task[n]) \cap ReplicationOps # {}
          /\ Get(destFs, Remap(task[n].path)).kind = "file"

NoOverride == consumer.override = {}

\* what walk has read and returned so far, with a consumer that overrides no
\* status: no link was read as a directory or read through, no directory is
\* pending twice or again, the result repeats no path and lacks the root, and
\* when walk returns every kept directory has been read
WalkIsSound ==
    /\ \A d \in visited : IsDirectory(tree[d])
    /\ \A q \in readLog :
          \A i \in 1..(Len(q) - 1) : ~IsSymbolicLink(tree[SubSeq(q, 1, i)])
    /\ \A i, j \in 1..Len(queue) : i # j => queue[i] # queue[j]
    /\ \A i \in 1..Len(queue) : queue[i] \notin visited
    /\ \A i, j \in 1..Len(result) : i # j => result[i] # result[j]
    /\ src \notin Range(result)
    /\ walkPc = "done" =>
          \A p \in DOMAIN tree :
              (IsDirectory(tree[p]) /\ p \notin skipped
                  /\ (p = src \/ Parent(p) \in visited)) => p \in visited

\* a directory is popped and its readdir issued
ReadsDirectory == walkPc = "pop" /\ walkPc' = "readdir"

\* C20: with a consumer that overrides no status, walk reads no directory
\* twice and no symbolic link at all, its result repeats no path and lacks the
\* root, every kept directory is read, and a walk that has begun returns
\* unless a call of the filesystem fails.
C20_WalkCompletes ==
    /\ [](NoOverride => WalkIsSound)
    /\ [][(NoOverride /\ ReadsDirectory) => dirPath' \notin visited]_vars
    /\ [](NoOverride /\ walkPc = "failed" => faults > 0)
    /\ (NoOverride /\ walkPc = "pop") ~> (walkPc = "done" \/ faults > 0)

C20_Witness ==
    /\ tree = Tree4
    /\ NoOverride
    /\ faults = 0
    /\ walkPc = "done"
    /\ visited = {src, <<"src", "d">>}
    /\ {<<"src", "c">>, <<"src", "d", "l">>} \subseteq Range(result)

====
